---- MODULE Spec2Model ----
(***************************************************************************)
(* Model of the slice geometry resolution of RSLMTestPattern:              *)
(* ResolumeXMLParser.parse / parseSlice / parseRect                        *)
(* (src/src/utils/resolume-parser.ts, lines 1-254).                        *)
(*                                                                         *)
(* A descriptor is the object tree fast-xml-parser hands to parse.  The    *)
(* numbers of the program are IEEE doubles; they are modelled as exact     *)
(* rationals extended with NaN, +Infinity and -Infinity, which is what the *)
(* divisions and products of parse produce on the integer coordinates and  *)
(* sizes drawn here.                                                       *)
(***************************************************************************)
EXTENDS Integers, Sequences, FiniteSets

(***************************************************************************)
(* Bounds of the model.                                                    *)
(***************************************************************************)
MaxSlices == 2      \* Slice elements per descriptor of the small family
MaxCalls == 2       \* recorded calls of parse on one descriptor
NumEntropy == 2     \* distinct outcomes of Date.now()/Math.random() per call

(***************************************************************************)
(* Program constants.                                                      *)
(***************************************************************************)
DefaultWidth == 1920
DefaultHeight == 1080
MinVertices == 4

ViewModes == {"input", "output"}

(***************************************************************************)
(* JavaScript numbers: a finite rational n/d in lowest terms with d > 0,   *)
(* or NaN, +Infinity, -Infinity.                                           *)
(***************************************************************************)
Abs(i) == IF i < 0 THEN -i ELSE i

RECURSIVE GCD(_, _)
GCD(a, b) == IF b = 0 THEN a ELSE GCD(b, a % b)

Fin(n, d) ==
  LET s == IF d < 0 THEN -1 ELSE 1
      g == GCD(Abs(n), Abs(d))
  IN  [k |-> "fin", n |-> (s * n) \div g, d |-> (s * d) \div g]

Num(i) == [k |-> "fin", n |-> i, d |-> 1]
NaN == [k |-> "nan", n |-> 0, d |-> 1]
PosInf == [k |-> "inf", n |-> 0, d |-> 1]
NegInf == [k |-> "ninf", n |-> 0, d |-> 1]

IsFinite(a) == a.k = "fin"

Sign(a) ==
  CASE a.k = "inf" -> 1
    [] a.k = "ninf" -> -1
    [] a.k = "fin" -> (IF a.n > 0 THEN 1 ELSE IF a.n < 0 THEN -1 ELSE 0)
    [] OTHER -> 0

\* a * b
Mul(a, b) ==
  IF a.k = "nan" \/ b.k = "nan" THEN NaN
  ELSE IF a.k = "fin" /\ b.k = "fin" THEN Fin(a.n * b.n, a.d * b.d)
  ELSE IF Sign(a) * Sign(b) = 0 THEN NaN
  ELSE IF Sign(a) * Sign(b) > 0 THEN PosInf
  ELSE NegInf

\* a / b  (a zero divisor is +0: it is a Math.max(0, ...) or an integer 0)
Div(a, b) ==
  IF a.k = "nan" \/ b.k = "nan" THEN NaN
  ELSE IF a.k = "fin" /\ b.k = "fin" THEN
         IF b.n # 0 THEN Fin(a.n * b.d, a.d * b.n)
         ELSE IF a.n = 0 THEN NaN
         ELSE IF a.n > 0 THEN PosInf ELSE NegInf
  ELSE IF a.k # "fin" /\ b.k # "fin" THEN NaN
  ELSE IF b.k # "fin" THEN Num(0)
  ELSE IF Sign(a) * (IF b.n < 0 THEN -1 ELSE 1) > 0 THEN PosInf ELSE NegInf

\* a <= 0  (false for NaN)
LeqZero(a) == a.k = "ninf" \/ (a.k = "fin" /\ a.n <= 0)

\* Math.round(a) = floor(a + 0.5); NaN and the infinities are kept
Round(a) ==
  IF a.k = "fin" THEN Num((2 * a.n + a.d) \div (2 * a.d)) ELSE a

\* Math.min over the values; preceded by a variant that takes the value of
\* the first vertex for the minimum
SeqMinFirst(s) == s[1]

RECURSIVE SeqMin(_)
SeqMin(s) ==
  IF Len(s) = 1 THEN s[1]
  ELSE LET m == SeqMin(Tail(s)) IN IF s[1] < m THEN s[1] ELSE m

RECURSIVE SeqMax(_)
SeqMax(s) ==
  IF Len(s) = 1 THEN s[1]
  ELSE LET m == SeqMax(Tail(s)) IN IF s[1] > m THEN s[1] ELSE m

(***************************************************************************)
(* The parsed XML tree.  An attribute is a number, or text that            *)
(* parseFloat cannot read, or is missing.                                  *)
(***************************************************************************)
A(i) == [kind |-> "number", num |-> i]
NoAttr == [kind |-> "missing", num |-> 0]
TextAttr == [kind |-> "text", num |-> 0]

V(x, y) == [x |-> A(x), y |-> A(y)]

Quad4(x0, y0, x1, y1) == << V(x0, y0), V(x1, y0), V(x1, y1), V(x0, y1) >>

\* <OutputRect>/<InputRect>: present is FALSE when the element or its v
\* children are missing; isArray is FALSE when the element has exactly one v
\* child, which fast-xml-parser stores as a single object (here v[1])
RectOf(vs) == [present |-> TRUE, isArray |-> TRUE, v |-> vs]
SingleRect(vtx) == [present |-> TRUE, isArray |-> FALSE, v |-> << vtx >>]
NoRect == [present |-> FALSE, isArray |-> FALSE, v |-> << >>]

(***************************************************************************)
(* parseRect (resolume-parser.ts 216-224)                                  *)
(***************************************************************************)
\* parseFloat(attr) || 0
parseCoord(a) == IF a.kind = "number" THEN a.num ELSE 0

\* lines 216-224; preceded by a variant that takes v for a list without
\* wrapping a single object, and by one that skips a vertex with a
\* coordinate that is not a number
parseRectNoWrap(rectObj) ==
  IF ~rectObj.present \/ ~rectObj.isArray THEN << >>
  ELSE [i \in 1..Len(rectObj.v) |->
          [x |-> parseCoord(rectObj.v[i].x), y |-> parseCoord(rectObj.v[i].y)]]

parseRectSkipUnparsable(rectObj) ==
  IF ~rectObj.present THEN << >>
  ELSE LET vertices == SelectSeq(IF rectObj.isArray THEN rectObj.v
                                 ELSE << rectObj.v[1] >>,
                                 LAMBDA vtx : /\ vtx.x.kind = "number"
                                              /\ vtx.y.kind = "number")
       IN  [i \in 1..Len(vertices) |->
              [x |-> parseCoord(vertices[i].x), y |-> parseCoord(vertices[i].y)]]

parseRect(rectObj) ==
  IF ~rectObj.present THEN << >>
  ELSE LET vertices == IF rectObj.isArray THEN rectObj.v ELSE << rectObj.v[1] >>
       IN  [i \in 1..Len(vertices) |->
              [x |-> parseCoord(vertices[i].x), y |-> parseCoord(vertices[i].y)]]

(***************************************************************************)
(* parseSlice (resolume-parser.ts 139-214).  rnd stands for the value of   *)
(* Date.now() and Math.random() read at line 140.  The result is either    *)
(* the SliceData or the exception thrown.                                  *)
(***************************************************************************)
Thrown(why) == [ok |-> FALSE, error |-> why]

sliceId(slice, rnd) ==
  IF slice.hasUniqueId
    THEN [kind |-> "uniqueId", val |-> << slice.uniqueId >>]
    ELSE [kind |-> "generated", val |-> rnd]

sliceName(slice) == IF slice.Name = "" THEN "Unnamed Slice" ELSE slice.Name

\* line 169, preceded by the selection with the two views exchanged
selectRectSwapped(viewMode, inputRect, outputRect) ==
  IF viewMode = "input" THEN outputRect ELSE inputRect

selectRect(viewMode, inputRect, outputRect) ==
  IF viewMode = "input" THEN inputRect ELSE outputRect

\* line 172, and the same test with the bound off by one
tooFewPointsOffByOne(activeRect) == Len(activeRect) < MinVertices - 1

tooFewPoints(activeRect) == Len(activeRect) < MinVertices

parseSlice(slice, viewMode, scaleX, scaleY, rnd) ==
  LET id == sliceId(slice, rnd)
      name == sliceName(slice)
      outputRect == parseRect(slice.OutputRect)
      inputRect == parseRect(slice.InputRect)
      activeRect == selectRect(viewMode, inputRect, outputRect)
  IN  IF tooFewPoints(activeRect) THEN Thrown("points")
      ELSE
        LET xValues == [i \in 1..Len(activeRect) |-> activeRect[i].x]
            yValues == [i \in 1..Len(activeRect) |-> activeRect[i].y]
            minX == SeqMin(xValues)
            maxX == SeqMax(xValues)
            minY == SeqMin(yValues)
            maxY == SeqMax(yValues)
            width == Mul(Num(maxX - minX), scaleX)
            height == Mul(Num(maxY - minY), scaleY)
            x == Mul(Num(minX), scaleX)
            y == Mul(Num(minY), scaleY)
        IN  IF LeqZero(width) \/ LeqZero(height) THEN Thrown("dimensions")
            ELSE [ok |-> TRUE,
                  slice |-> [id |-> id,
                             name |-> name,
                             width |-> Round(width),
                             height |-> Round(height),
                             x |-> Round(x),
                             y |-> Round(y),
                             inputRect |-> inputRect,
                             outputRect |-> outputRect]]

(***************************************************************************)
(* parse (resolume-parser.ts 16-137), block by block.                      *)
(***************************************************************************)
\* attr || fallback
\* lines 35-42: screens.Screen is one Screen element or an array of them;
\* the first screen is at the head of the document, the further ones in
\* xml.later
screenList(xml) ==
  << [virtual |-> xml.virtual, Slice |-> xml.Slice] >> \o xml.later

\* line 42, preceded by the choice of the last screen
selectScreenLast(xml) == screenList(xml)[Len(screenList(xml))]

selectScreen(xml) == screenList(xml)[1]

OrDefault(n, fallback) == IF n = 0 THEN fallback ELSE n

\* lines 44-63
\* lines 44-63; preceded by a variant that reads CurrentCompositionTextureSize
\* before the virtual output
compositionSizeTextureFirst(xml) ==
  IF xml.texture.present
    THEN [width |-> OrDefault(xml.texture.width, DefaultWidth),
          height |-> OrDefault(xml.texture.height, DefaultHeight)]
  ELSE IF selectScreen(xml).virtual.present
    THEN [width |-> OrDefault(selectScreen(xml).virtual.width, DefaultWidth),
          height |-> OrDefault(selectScreen(xml).virtual.height, DefaultHeight)]
  ELSE [width |-> DefaultWidth, height |-> DefaultHeight]

compositionSizeOf(xml) ==
  IF selectScreen(xml).virtual.present
    THEN [width |-> OrDefault(selectScreen(xml).virtual.width, DefaultWidth),
          height |-> OrDefault(selectScreen(xml).virtual.height, DefaultHeight)]
  ELSE IF xml.texture.present
    THEN [width |-> OrDefault(xml.texture.width, DefaultWidth),
          height |-> OrDefault(xml.texture.height, DefaultHeight)]
  ELSE [width |-> DefaultWidth, height |-> DefaultHeight]

\* the rect whose vertices the pre-pass of lines 86-92 reads for one slice,
\* preceded by a pre-pass that reads the rect of the active view
prepassRectActive(slice, viewMode) ==
  parseRect(IF viewMode = "input" THEN slice.InputRect ELSE slice.OutputRect)

prepassRect(slice, viewMode) == parseRect(slice.OutputRect)

RECURSIVE prepassVertices(_, _)
prepassVertices(sliceArray, viewMode) ==
  IF sliceArray = << >> THEN << >>
  ELSE prepassRect(Head(sliceArray), viewMode)
         \o prepassVertices(Tail(sliceArray), viewMode)

\* lines 84-94, preceded by a bounding box whose height is taken from the
\* x coordinates
internalResolutionSquare(sliceArray, viewMode) ==
  LET vs == prepassVertices(sliceArray, viewMode)
  IN  [width |-> SeqMax(<< 0 >> \o [i \in 1..Len(vs) |-> vs[i].x]),
       height |-> SeqMax(<< 0 >> \o [i \in 1..Len(vs) |-> vs[i].x])]

internalResolution(sliceArray, viewMode) ==
  LET vs == prepassVertices(sliceArray, viewMode)
  IN  [width |-> SeqMax(<< 0 >> \o [i \in 1..Len(vs) |-> vs[i].x]),
       height |-> SeqMax(<< 0 >> \o [i \in 1..Len(vs) |-> vs[i].y])]

\* lines 97-99, preceded by the inverted quotient
scaleFactorInverted(target, internal) == Div(Num(internal), Num(target))

scaleFactor(target, internal) == Div(Num(target), Num(internal))

\* lines 102-117: one entry per source slice, null for a slice that threw;
\* preceded by a map without the inner try/catch, where one throwing slice
\* loses every slice
mapSlicesNoCatch(sliceArray, viewMode, scaleX, scaleY, entropy) ==
  LET parsed == [index \in 1..Len(sliceArray) |->
                   parseSlice(sliceArray[index], viewMode, scaleX, scaleY,
                              << entropy, index >>)]
  IN  [index \in 1..Len(sliceArray) |->
         IF \A i \in 1..Len(sliceArray) : parsed[i].ok
           THEN [ok |-> TRUE, index |-> index, slice |-> parsed[index].slice]
           ELSE [ok |-> FALSE, index |-> index]]

mapSlices(sliceArray, viewMode, scaleX, scaleY, entropy) ==
  [index \in 1..Len(sliceArray) |->
     LET parsed == parseSlice(sliceArray[index], viewMode, scaleX, scaleY,
                              << entropy, index >>)
     IN  IF parsed.ok THEN [ok |-> TRUE, index |-> index, slice |-> parsed.slice]
         ELSE [ok |-> FALSE, index |-> index]]

\* line 118, preceded by a filter that collects the survivors in reverse
RECURSIVE filterNonNullReversed(_)
filterNonNullReversed(mapped) ==
  IF mapped = << >> THEN << >>
  ELSE IF Head(mapped).ok
    THEN filterNonNullReversed(Tail(mapped)) \o << Head(mapped) >>
  ELSE filterNonNullReversed(Tail(mapped))

RECURSIVE filterNonNull(_)
filterNonNull(mapped) ==
  IF mapped = << >> THEN << >>
  ELSE IF Head(mapped).ok THEN << Head(mapped) >> \o filterNonNull(Tail(mapped))
  ELSE filterNonNull(Tail(mapped))

\* lines 133-136: the outer catch returns null; preceded by a catch that
\* returns an empty default setup instead
NullAsEmptySetup ==
  [ok |-> TRUE,
   compositionSize |-> [width |-> DefaultWidth, height |-> DefaultHeight],
   slices |-> << >>]

Null == [ok |-> FALSE]

\* lines 65-80: the setup returned when the screen has no Slice element;
\* preceded by one that returns the default size whatever was declared
emptySetupDefaultSize(compositionSize) ==
  [ok |-> TRUE,
   compositionSize |-> [width |-> DefaultWidth, height |-> DefaultHeight],
   slices |-> << >>]

emptySetup(compositionSize) ==
  [ok |-> TRUE, compositionSize |-> compositionSize, slices |-> << >>]

NoSize == [width |-> 0, height |-> 0]

\* The record of one call: the value returned (result), the source index of
\* each returned slice (origin, a history value the program does not keep),
\* and the intermediate values parse logs at lines 95 and 100.
parse(xml, viewMode, entropy) ==
  IF xml.root # "ok" THEN
    [viewMode |-> viewMode, stage |-> "error", internal |-> NoSize,
     scaleX |-> NaN, scaleY |-> NaN, origin |-> << >>, result |-> Null]
  ELSE
    LET compositionSize == compositionSizeOf(xml)
        sliceArray == selectScreen(xml).Slice
    IN  IF sliceArray = << >> THEN
          [viewMode |-> viewMode, stage |-> "empty", internal |-> NoSize,
           scaleX |-> NaN, scaleY |-> NaN, origin |-> << >>,
           result |-> emptySetup(compositionSize)]
        ELSE
          LET internal == internalResolution(sliceArray, viewMode)
              scaleX == scaleFactor(compositionSize.width, internal.width)
              scaleY == scaleFactor(compositionSize.height, internal.height)
              kept == filterNonNull(
                        mapSlices(sliceArray, viewMode, scaleX, scaleY, entropy))
          IN  [viewMode |-> viewMode, stage |-> "full", internal |-> internal,
               scaleX |-> scaleX, scaleY |-> scaleY,
               origin |-> [j \in 1..Len(kept) |-> kept[j].index],
               result |-> [ok |-> TRUE, compositionSize |-> compositionSize,
                           slices |-> [j \in 1..Len(kept) |-> kept[j].slice]]]

(***************************************************************************)
(* The descriptors parse is applied to.                                    *)
(***************************************************************************)
NoSizeElement == [present |-> FALSE, width |-> 0, height |-> 0]
SizeElement(w, h) == [present |-> TRUE, width |-> w, height |-> h]

\* Small coordinates: a unit quad, a quad abutting it, a quad left of and
\* above the origin, a quad of three vertices, a quad of zero width
OutputRects ==
  { RectOf(Quad4(0, 0, 1, 1)),
    RectOf(Quad4(1, 0, 3, 2)),
    RectOf(Quad4(-2, -1, 0, 0)),
    RectOf(SubSeq(Quad4(0, 0, 4, 3), 1, 3)),
    RectOf(Quad4(2, 0, 2, 2)) }

InputRects ==
  { RectOf(Quad4(0, 0, 2, 1)),
    RectOf(SubSeq(Quad4(0, 0, 2, 1), 1, 3)) }

SliceShapes ==
  [OutputRect : OutputRects, InputRect : InputRects, hasUniqueId : {TRUE}]

\* Input quads of zero width, beside output quads that leave the inferred
\* internal resolution at 0
DegenerateShapes ==
  [OutputRect : { RectOf(Quad4(-2, -1, 0, 0)), NoRect },
   InputRect : { RectOf(Quad4(1, 0, 1, 1)), RectOf(Quad4(0, 0, 2, 1)) },
   hasUniqueId : {TRUE}]

\* Slices with and without a uniqueId attribute
IdlessShapes ==
  [OutputRect : { RectOf(Quad4(0, 0, 1, 1)) },
   InputRect : { RectOf(Quad4(0, 0, 2, 1)) },
   hasUniqueId : BOOLEAN]

\* the Slice element at position i: exported ids are distinct, and the
\* second and later slices carry no Name param
SliceAt(shape, i) ==
  [hasUniqueId |-> shape.hasUniqueId,
   uniqueId |-> IF shape.hasUniqueId THEN i ELSE 0,
   Name |-> IF i = 1 THEN "Slice 1" ELSE "",
   OutputRect |-> shape.OutputRect,
   InputRect |-> shape.InputRect]

SliceLists(shapes, minLen, maxLen) ==
  UNION { { [i \in 1..n |-> SliceAt(f[i], i)] : f \in [1..n -> shapes] }
          : n \in minLen..maxLen }

SmallDescriptors ==
  [root : {"ok"},
   later : {<< >>},
   virtual : {NoSizeElement, SizeElement(2, 1)},
   texture : {NoSizeElement},
   Slice : SliceLists(SliceShapes, 0, MaxSlices)]

DegenerateDescriptors ==
  [root : {"ok"},
   later : {<< >>},
   virtual : {NoSizeElement, SizeElement(2, 1)},
   texture : {NoSizeElement},
   Slice : SliceLists(DegenerateShapes, 1, MaxSlices)]

IdlessDescriptors ==
  [root : {"ok"},
   later : {<< >>},
   virtual : {NoSizeElement},
   texture : {NoSizeElement},
   Slice : SliceLists(IdlessShapes, 1, MaxSlices)]

\* One slice more than the small family, valid or dropped in either view,
\* under every combination of the two declared sizes
LongShapes ==
  { [OutputRect |-> RectOf(Quad4(0, 0, 1, 1)),
     InputRect |-> RectOf(Quad4(0, 0, 2, 1)), hasUniqueId |-> TRUE],
    [OutputRect |-> RectOf(Quad4(1, 0, 3, 2)),
     InputRect |-> RectOf(SubSeq(Quad4(0, 0, 2, 1), 1, 3)), hasUniqueId |-> TRUE],
    [OutputRect |-> RectOf(SubSeq(Quad4(0, 0, 4, 3), 1, 3)),
     InputRect |-> RectOf(Quad4(0, 0, 2, 1)), hasUniqueId |-> TRUE] }

LongDescriptors ==
  [root : {"ok"},
   later : {<< >>},
   virtual : {NoSizeElement, SizeElement(2, 1)},
   texture : {NoSizeElement, SizeElement(4, 0), SizeElement(3, 2)},
   Slice : SliceLists(LongShapes, MaxSlices + 1, MaxSlices + 1)]

\* The encodings of a rect: a single v object, no rect, and quads some of
\* whose coordinates are text or missing
UnparsableOutputQuad ==
  << V(1, 1), [x |-> A(3), y |-> TextAttr], V(3, 2), [x |-> NoAttr, y |-> A(2)] >>

UnparsableInputQuad ==
  << [x |-> TextAttr, y |-> NoAttr], V(2, 0), V(2, 1), [x |-> NoAttr, y |-> A(1)] >>

EncodingShapes ==
  [OutputRect : { SingleRect(V(3, 2)), NoRect, RectOf(UnparsableOutputQuad) },
   InputRect : { RectOf(Quad4(0, 0, 2, 1)), RectOf(UnparsableInputQuad) },
   hasUniqueId : {TRUE}]

EncodingDescriptors ==
  [root : {"ok"},
   later : {<< >>},
   virtual : {NoSizeElement},
   texture : {NoSizeElement},
   Slice : SliceLists(EncodingShapes, 1, MaxSlices)]

\* Slice elements that all carry the uniqueId of the first one
DuplicateIdLists ==
  { [i \in 1..n |->
       [SliceAt([OutputRect |-> RectOf(Quad4(0, 0, 1, 1)),
                 InputRect |-> RectOf(Quad4(0, 0, 2, 1)),
                 hasUniqueId |-> TRUE], i) EXCEPT !.uniqueId = 1]]
    : n \in 2..MaxSlices }

DuplicateIdDescriptors ==
  [root : {"ok"},
   later : {<< >>},
   virtual : {NoSizeElement},
   texture : {NoSizeElement},
   Slice : DuplicateIdLists]

\* The same vertices written in different orders
Reordered(vs, order) == [i \in 1..Len(order) |-> vs[order[i]]]

SkewQuad == << V(1, 0), V(3, 1), V(2, 3), V(0, 2) >>

PermutedShapes ==
  [OutputRect : { RectOf(Reordered(SkewQuad, order)) :
                    order \in { << 1, 2, 3, 4 >>, << 3, 1, 4, 2 >>, << 4, 3, 2, 1 >> } },
   InputRect : { RectOf(Reordered(Quad4(0, 0, 2, 1), order)) :
                   order \in { << 1, 2, 3, 4 >>, << 3, 4, 2, 1 >> } },
   hasUniqueId : {TRUE}]

PermutedDescriptors ==
  [root : {"ok"},
   later : {<< >>},
   virtual : {NoSizeElement, SizeElement(2, 1)},
   texture : {NoSizeElement},
   Slice : SliceLists(PermutedShapes, 2, 2)]

\* Two regions that share an edge, away from the origin
GridDescriptors ==
  [root : {"ok"},
   later : {<< >>},
   virtual : {NoSizeElement, SizeElement(2, 1)},
   texture : {NoSizeElement},
   Slice : SliceLists([OutputRect : {RectOf(Quad4(1, 1, 2, 2)), RectOf(Quad4(2, 1, 4, 2))},
                       InputRect : {RectOf(Quad4(0, 0, 2, 1))},
                       hasUniqueId : {TRUE}], 2, 2)]

\* Documents with a second Screen element that has its own virtual output
\* size and its own slice
LaterScreens ==
  { << [virtual |-> SizeElement(8, 6),
        Slice |-> << [SliceAt([OutputRect |-> RectOf(Quad4(0, 0, 8, 6)),
                               InputRect |-> RectOf(Quad4(0, 0, 8, 6)),
                               hasUniqueId |-> TRUE], 1)
                        EXCEPT !.uniqueId = 9] >>] >> }

MultiScreenDescriptors ==
  [root : {"ok"},
   later : LaterScreens,
   virtual : {NoSizeElement, SizeElement(2, 1)},
   texture : {NoSizeElement},
   Slice : SliceLists([OutputRect : {RectOf(Quad4(0, 0, 1, 1)), RectOf(Quad4(1, 0, 3, 2))},
                       InputRect : {RectOf(Quad4(0, 0, 2, 1))},
                       hasUniqueId : {TRUE}], 0, 2)]

\* A screen without Slice elements, under every combination of the two
\* declared sizes
EmptyDescriptors ==
  [root : {"ok"},
   later : {<< >>},
   virtual : {NoSizeElement, SizeElement(2, 1)},
   texture : {NoSizeElement, SizeElement(4, 0)},
   Slice : {<< >>}]

\* Full-size regions: 1920x1080 at the origin and a region overlapping it
\* that reaches 3840x1080
ScenarioShapes ==
  [OutputRect : { RectOf(Quad4(0, 0, 1920, 1080)),
                  RectOf(Quad4(960, 0, 3840, 1080)) },
   InputRect : { RectOf(Quad4(0, 0, 1920, 1080)) },
   hasUniqueId : {TRUE}]

ScenarioDescriptors ==
  [root : {"ok"},
   later : {<< >>},
   virtual : {NoSizeElement, SizeElement(960, 540)},
   texture : {NoSizeElement},
   Slice : SliceLists(ScenarioShapes, 1, MaxSlices)]

RootlessDescriptors ==
  [root : {"noXmlState", "noScreenSetup", "noScreen"},
   later : {<< >>},
   virtual : {NoSizeElement},
   texture : {NoSizeElement},
   Slice : {<< >>}]

Descriptors ==
  SmallDescriptors \cup DegenerateDescriptors \cup IdlessDescriptors
    \cup LongDescriptors \cup EncodingDescriptors \cup DuplicateIdDescriptors
    \cup PermutedDescriptors \cup GridDescriptors \cup MultiScreenDescriptors
    \cup EmptyDescriptors \cup ScenarioDescriptors \cup RootlessDescriptors

(***************************************************************************)
(* State: the descriptor text held by the caller, and the calls of parse   *)
(* made on it so far (the caller re-parses the same text on every change   *)
(* of the view mode).                                                      *)
(***************************************************************************)
VARIABLES xml, calls

vars == << xml, calls >>

Init ==
  /\ xml \in Descriptors
  /\ calls = << >>

\* resolumeParser.parse(xml, viewMode)
Parse(viewMode, entropy) ==
  /\ Len(calls) < MaxCalls
  /\ calls' = Append(calls, parse(xml, viewMode, entropy))
  /\ UNCHANGED xml

Next == \E viewMode \in ViewModes, entropy \in 1..NumEntropy : Parse(viewMode, entropy)

TypeOK ==
  /\ xml \in Descriptors
  /\ Len(calls) <= MaxCalls
  /\ \A c \in 1..Len(calls) : calls[c].viewMode \in ViewModes

(***************************************************************************)
(* Vocabulary of the properties.  They are stated on the source slices of  *)
(* xml and on the recorded calls, with their own arithmetic on integers.   *)
(***************************************************************************)
Calls == 1..Len(calls)
FullCalls == { c \in Calls : calls[c].stage = "full" }
Emitted(c) == calls[c].result.slices
Source(c, j) == xml.Slice[calls[c].origin[j]]

\* the vertices of the quad of a source slice in a view
QuadOf(raw, viewMode) ==
  parseRect(IF viewMode = "input" THEN raw.InputRect ELSE raw.OutputRect)

Xs(q) == { q[i].x : i \in 1..Len(q) }
Ys(q) == { q[i].y : i \in 1..Len(q) }
Least(S) == CHOOSE m \in S : \A e \in S : m <= e
Greatest(S) == CHOOSE m \in S : \A e \in S : m >= e
ExtentX(q) == Greatest(Xs(q)) - Least(Xs(q))
ExtentY(q) == Greatest(Ys(q)) - Least(Ys(q))

\* at least 4 vertices and a bounding box of positive width and height
ValidQuad(q) == Len(q) >= MinVertices /\ ExtentX(q) > 0 /\ ExtentY(q) > 0

IsPositiveInteger(a) == a.k = "fin" /\ a.d = 1 /\ a.n > 0

\* every returned slice is the slice parsed from its source slice
OriginsMatch(c) ==
  /\ Len(calls[c].origin) = Len(Emitted(c))
  /\ \A j \in 1..Len(Emitted(c)) :
       /\ calls[c].origin[j] \in 1..Len(xml.Slice)
       /\ Emitted(c)[j].outputRect = parseRect(Source(c, j).OutputRect)
       /\ Emitted(c)[j].inputRect = parseRect(Source(c, j).InputRect)
       /\ Emitted(c)[j].name = sliceName(Source(c, j))
       /\ Source(c, j).hasUniqueId
            => Emitted(c)[j].id.val = << Source(c, j).uniqueId >>

(***************************************************************************)
(* C1: every slice returned by parse has an integer width > 0 and an       *)
(* integer height > 0 after scaling and rounding; a slice whose rounded    *)
(* width or height is 0 is not returned.                                   *)
(***************************************************************************)
C1_PositiveIntegerSize ==
  \A c \in Calls : calls[c].result.ok =>
    \A j \in 1..Len(Emitted(c)) :
      /\ IsPositiveInteger(Emitted(c)[j].width)
      /\ IsPositiveInteger(Emitted(c)[j].height)

(***************************************************************************)
(* C2: x, y, width and height of every slice returned by parse are finite  *)
(* numbers (no NaN, no Infinity), also when the inferred internal width or *)
(* height is 0.                                                            *)
(***************************************************************************)
C2_FiniteBoxes ==
  \A c \in Calls : calls[c].result.ok =>
    \A j \in 1..Len(Emitted(c)) :
      /\ IsFinite(Emitted(c)[j].x)
      /\ IsFinite(Emitted(c)[j].y)
      /\ IsFinite(Emitted(c)[j].width)
      /\ IsFinite(Emitted(c)[j].height)

(***************************************************************************)
(* C3: when the inferred internal resolution has width 0 or height 0,      *)
(* parse uses scaleX = scaleY = 1.                                         *)
(***************************************************************************)
C3_IdentityOnZeroInternal ==
  \A c \in FullCalls :
    (calls[c].internal.width = 0 \/ calls[c].internal.height = 0)
      => calls[c].scaleX = Num(1) /\ calls[c].scaleY = Num(1)

(***************************************************************************)
(* C4: a source slice whose quad for the view mode of the call has fewer   *)
(* than 4 vertices is not in the list parse returns, and parse returns a   *)
(* non-null result.                                                        *)
(***************************************************************************)
HasShortQuad(c) ==
  \E i \in 1..Len(xml.Slice) :
    Len(QuadOf(xml.Slice[i], calls[c].viewMode)) < MinVertices

C4_ShortQuadDropped ==
  \A c \in Calls :
    /\ HasShortQuad(c) => calls[c].result.ok
    /\ calls[c].result.ok =>
         /\ OriginsMatch(c)
         /\ \A j \in 1..Len(Emitted(c)) :
              Len(QuadOf(Source(c, j), calls[c].viewMode)) >= MinVertices

\* a call that dropped a slice of three vertices and returned its sibling
C4_Witness ==
  \E c \in Calls :
    /\ Len(Emitted(c)) >= 1
    /\ \E i \in 1..Len(xml.Slice) :
         Len(QuadOf(xml.Slice[i], calls[c].viewMode)) = MinVertices - 1

(***************************************************************************)
(* C5: every source slice whose own active quad is valid is in the result  *)
(* of parse, whatever the validity of the other slices of the descriptor.  *)
(***************************************************************************)
C5_ValidSliceKept ==
  \A c \in FullCalls :
    /\ calls[c].result.ok
    /\ OriginsMatch(c)
    /\ \A i \in 1..Len(xml.Slice) :
         ValidQuad(QuadOf(xml.Slice[i], calls[c].viewMode))
           => \E j \in 1..Len(Emitted(c)) : calls[c].origin[j] = i

\* a call with a valid slice next to an invalid sibling
C5_Witness ==
  \E c \in FullCalls :
    \E i, k \in 1..Len(xml.Slice) :
      /\ ValidQuad(QuadOf(xml.Slice[i], calls[c].viewMode))
      /\ ~ValidQuad(QuadOf(xml.Slice[k], calls[c].viewMode))
      /\ \E j \in 1..Len(Emitted(c)) : calls[c].origin[j] = i

(***************************************************************************)
(* C6: the list returned by parse is an order-preserving subsequence of    *)
(* the source slice list: the source positions of the returned slices are  *)
(* strictly increasing.                                                    *)
(***************************************************************************)
C6_OrderPreserved ==
  \A c \in Calls : calls[c].result.ok =>
    /\ OriginsMatch(c)
    /\ \A j, k \in 1..Len(Emitted(c)) :
         j < k => calls[c].origin[j] < calls[c].origin[k]

\* two slices returned around a dropped one
C6_Witness ==
  \E c \in FullCalls :
    \E j \in 1..Len(Emitted(c)) :
      /\ j + 1 <= Len(Emitted(c))
      /\ calls[c].origin[j + 1] > calls[c].origin[j] + 1
      /\ Emitted(c)[j] # Emitted(c)[j + 1]

(***************************************************************************)
(* C7: the inferred internal resolution is {max(x + width),                *)
(* max(y + height)} over the output-view bounding boxes of the valid       *)
(* slices only; the vertices of slices whose output quad is invalid do not *)
(* contribute.                                                             *)
(***************************************************************************)
ValidOutputQuads ==
  { QuadOf(xml.Slice[i], "output") : i \in
      { k \in 1..Len(xml.Slice) : ValidQuad(QuadOf(xml.Slice[k], "output")) } }

C7_InternalFromValidOnly ==
  \A c \in FullCalls :
    ValidOutputQuads # {} =>
      /\ calls[c].internal.width
           = Greatest({ Greatest(Xs(q)) : q \in ValidOutputQuads })
      /\ calls[c].internal.height
           = Greatest({ Greatest(Ys(q)) : q \in ValidOutputQuads })

(***************************************************************************)
(* C8: the inferred internal resolution and the scale factors are the same *)
(* for viewMode = 'input' and viewMode = 'output' on one descriptor.       *)
(***************************************************************************)
C8_ViewModeIndependent ==
  \A c, e \in FullCalls :
    /\ calls[c].internal = calls[e].internal
    /\ calls[c].scaleX = calls[e].scaleX
    /\ calls[c].scaleY = calls[e].scaleY

\* the same descriptor parsed in both views, with a slice whose input quad
\* is not its output quad
C8_Witness ==
  \E c, e \in FullCalls :
    /\ calls[c].viewMode = "input"
    /\ calls[e].viewMode = "output"
    /\ \E i \in 1..Len(xml.Slice) :
         QuadOf(xml.Slice[i], "input") # QuadOf(xml.Slice[i], "output")

(***************************************************************************)
(* C9: two calls of parse with the same descriptor and the same view mode  *)
(* return equal results, also for slices without a uniqueId attribute.     *)
(***************************************************************************)
C9_Idempotent ==
  \A c, e \in Calls :
    calls[c].viewMode = calls[e].viewMode => calls[c].result = calls[e].result

(***************************************************************************)
(* C10: scaleX = targetWidth / internalWidth and                           *)
(* scaleY = targetHeight / internalHeight, each axis on its own, and the   *)
(* box of every returned slice is x' = round(minX * scaleX),               *)
(* y' = round(minY * scaleY), width' = round((maxX - minX) * scaleX),      *)
(* height' = round((maxY - minY) * scaleY) of its active quad (in IEEE     *)
(* arithmetic when the internal size is 0); the region                     *)
(* (0,0),(1920,0),(1920,1080),(0,1080) with target 960x540 resolves to     *)
(* {0,0,960,540}.                                                          *)
(***************************************************************************)
\* s is the quotient target / internal
IsQuotient(s, target, internal) ==
  IF internal = 0 THEN s = PosInf
  ELSE s.k = "fin" /\ s.n * internal = target * s.d

\* r is v * target / internal rounded to a nearest integer
IsRounded(r, v, target, internal) ==
  IF internal = 0
    THEN r = (IF v > 0 THEN PosInf ELSE IF v < 0 THEN NegInf ELSE NaN)
    ELSE /\ r.k = "fin"
         /\ r.d = 1
         /\ 2 * r.n * internal - 2 * v * target <= internal
         /\ 2 * v * target - 2 * r.n * internal <= internal

ScenarioB ==
  /\ xml.Slice = << SliceAt([OutputRect |-> RectOf(Quad4(0, 0, 1920, 1080)),
                             InputRect |-> RectOf(Quad4(0, 0, 1920, 1080)),
                             hasUniqueId |-> TRUE], 1) >>
  /\ xml.virtual = SizeElement(960, 540)

C10_ScaledBoxes ==
  \A c \in FullCalls :
    LET target == calls[c].result.compositionSize
        internal == calls[c].internal
    IN  /\ target.width > 0 /\ target.height > 0
        /\ IsQuotient(calls[c].scaleX, target.width, internal.width)
        /\ IsQuotient(calls[c].scaleY, target.height, internal.height)
        /\ OriginsMatch(c)
        /\ \A j \in 1..Len(Emitted(c)) :
             LET q == QuadOf(Source(c, j), calls[c].viewMode)
                 b == Emitted(c)[j]
             IN  /\ IsRounded(b.x, Least(Xs(q)), target.width, internal.width)
                 /\ IsRounded(b.y, Least(Ys(q)), target.height, internal.height)
                 /\ IsRounded(b.width, ExtentX(q), target.width, internal.width)
                 /\ IsRounded(b.height, ExtentY(q), target.height, internal.height)
        /\ ScenarioB =>
             /\ Len(Emitted(c)) = 1
             /\ Emitted(c)[1].x = Num(0) /\ Emitted(c)[1].y = Num(0)
             /\ Emitted(c)[1].width = Num(960) /\ Emitted(c)[1].height = Num(540)

\* the 1920x1080 region resolved in output view for the 960x540 target
C10_Witness ==
  /\ ScenarioB
  /\ \E c \in FullCalls : calls[c].viewMode = "output" /\ Len(Emitted(c)) = 1

\* v * target / internal rounded to the nearest integer, a half rounded away
\* from zero (2.5 gives 3, -2.5 gives -3)
HalfAwayFromZero(v, target, internal) ==
  IF v * target >= 0
    THEN (2 * v * target + internal) \div (2 * internal)
    ELSE 0 - ((2 * (0 - v * target) + internal) \div (2 * internal))

\* C11: every returned x, y, width and height is the scaled value rounded to
\* the nearest integer with a half rounded away from zero, negative values
\* included
C11_RoundHalfAwayFromZero ==
  \A c \in FullCalls :
    LET target == calls[c].result.compositionSize
        internal == calls[c].internal
    IN  (internal.width > 0 /\ internal.height > 0) =>
          \A j \in 1..Len(Emitted(c)) :
            LET q == QuadOf(Source(c, j), calls[c].viewMode)
                b == Emitted(c)[j]
            IN  /\ b.x = Num(HalfAwayFromZero(Least(Xs(q)), target.width, internal.width))
                /\ b.y = Num(HalfAwayFromZero(Least(Ys(q)), target.height, internal.height))
                /\ b.width = Num(HalfAwayFromZero(ExtentX(q), target.width, internal.width))
                /\ b.height = Num(HalfAwayFromZero(ExtentY(q), target.height, internal.height))

\* the greatest x and y over the output vertices of all source slices, and 0
OutputBounds ==
  LET qs == { parseRect(xml.Slice[i].OutputRect) : i \in 1..Len(xml.Slice) }
  IN  [width |-> Greatest({0} \cup UNION { Xs(q) : q \in qs }),
       height |-> Greatest({0} \cup UNION { Ys(q) : q \in qs })]

\* Scenario A: one 1920x1080 region from the origin and no declared size
ScenarioA ==
  /\ xml.Slice = << SliceAt([OutputRect |-> RectOf(Quad4(0, 0, 1920, 1080)),
                             InputRect |-> RectOf(Quad4(0, 0, 1920, 1080)),
                             hasUniqueId |-> TRUE], 1) >>
  /\ xml.virtual = NoSizeElement
  /\ xml.texture = NoSizeElement

\* C12: when the bounding box of the output vertices equals the returned
\* composition size, both scale factors are 1 and every returned box is the
\* unscaled bounding box of its quad; Scenario A returns {0, 0, 1920, 1080}
C12_ScaleIdentity ==
  \A c \in FullCalls :
    /\ ( /\ calls[c].result.compositionSize = OutputBounds
         /\ OutputBounds.width > 0 /\ OutputBounds.height > 0 ) =>
          /\ calls[c].scaleX = Num(1) /\ calls[c].scaleY = Num(1)
          /\ OriginsMatch(c)
          /\ \A j \in 1..Len(Emitted(c)) :
               LET q == QuadOf(Source(c, j), calls[c].viewMode)
                   b == Emitted(c)[j]
               IN  /\ b.x = Num(Least(Xs(q))) /\ b.y = Num(Least(Ys(q)))
                   /\ b.width = Num(ExtentX(q)) /\ b.height = Num(ExtentY(q))
    /\ ScenarioA =>
          /\ Len(Emitted(c)) = 1
          /\ Emitted(c)[1].x = Num(0) /\ Emitted(c)[1].y = Num(0)
          /\ Emitted(c)[1].width = Num(1920) /\ Emitted(c)[1].height = Num(1080)

\* a call whose composition size equals the bounding box of the output
\* vertices and that returns a slice
C12_Witness ==
  \E c \in FullCalls :
    /\ calls[c].result.compositionSize = OutputBounds
    /\ OutputBounds.width > 0 /\ OutputBounds.height > 0
    /\ Len(Emitted(c)) > 0

\* C13: when XmlState, ScreenSetup or the screen list is missing, parse
\* returns null: the call ends with a value, and that value is no setup
C13_MissingRootGivesNull ==
  xml.root # "ok" =>
    \A c \in Calls :
      /\ calls[c].stage = "error"
      /\ ~ calls[c].result.ok
      /\ DOMAIN calls[c].result = {"ok"}

\* parse was called on a document without a ScreenSetup element
C13_Witness ==
  /\ xml.root = "noScreenSetup"
  /\ Len(calls) > 0

\* C14, as stated: a document with its root elements and no slice gives a
\* setup, not null, with no slices and with the declared composition size:
\* the virtual output size if there is one, else the texture size, else
\* 1920x1080
C14_EmptySetup ==
  (xml.root = "ok" /\ xml.Slice = << >>) =>
    \A c \in Calls :
      /\ calls[c].result.ok
      /\ calls[c].result.slices = << >>
      /\ calls[c].result.compositionSize =
           IF xml.virtual.present
             THEN [width |-> xml.virtual.width, height |-> xml.virtual.height]
           ELSE IF xml.texture.present
             THEN [width |-> xml.texture.width, height |-> xml.texture.height]
           ELSE [width |-> 1920, height |-> 1080]

\* the element that declares the size: the virtual output if there is one,
\* else the texture size, else none
DeclaredElement ==
  IF xml.virtual.present THEN xml.virtual
  ELSE IF xml.texture.present THEN xml.texture
  ELSE NoSizeElement

\* C14, amended: a document with its root elements and no slice gives a
\* setup, not null, with no slices, whose width is the declared width, or
\* 1920 when no width is declared or it is 0, and whose height is the
\* declared height, or 1080 when no height is declared or it is 0
C14_EmptySetupPerAttribute ==
  (xml.root = "ok" /\ xml.Slice = << >>) =>
    \A c \in Calls :
      /\ calls[c].stage = "empty"
      /\ calls[c].result.ok
      /\ calls[c].result.slices = << >>
      /\ calls[c].result.compositionSize.width =
           (IF DeclaredElement.width = 0 THEN 1920 ELSE DeclaredElement.width)
      /\ calls[c].result.compositionSize.height =
           (IF DeclaredElement.height = 0 THEN 1080 ELSE DeclaredElement.height)

\* parse was called on a sliceless document that declares a texture size
\* with height 0 and no virtual output
C14_Witness ==
  /\ xml.root = "ok" /\ xml.Slice = << >>
  /\ ~ xml.virtual.present /\ xml.texture.present /\ xml.texture.height = 0
  /\ Len(calls) > 0

\* the source indices of the slices a call dropped
Dropped(c) ==
  { i \in 1..Len(xml.Slice) : \A j \in 1..Len(Emitted(c)) : calls[c].origin[j] # i }

\* C15: the value returned to the caller carries one diagnostic record per
\* dropped slice, with the slice id and the reason TooFewVertices or
\* DegenerateExtent, so that returned slices plus diagnostics count the
\* source slices
C15_DiagnosticPerDroppedSlice ==
  \A c \in FullCalls :
    Dropped(c) # {} =>
      /\ "diagnostics" \in DOMAIN calls[c].result
      /\ Len(Emitted(c)) + Len(calls[c].result.diagnostics) = Len(xml.Slice)
      /\ \A i \in Dropped(c) :
           \E k \in 1..Len(calls[c].result.diagnostics) :
             /\ calls[c].result.diagnostics[k].id = sliceId(xml.Slice[i], << 1, i >>)
             /\ calls[c].result.diagnostics[k].reason
                  \in {"TooFewVertices", "DegenerateExtent"}

\* C16: a slice whose active quad has a bounding box of width 0 or height 0
\* is never returned, whatever the scale factors are, an inferred internal
\* resolution of 0 included
C16_DegenerateQuadDropped ==
  \A c \in FullCalls :
    /\ OriginsMatch(c)
    /\ \A j \in 1..Len(Emitted(c)) :
         LET q == QuadOf(Source(c, j), calls[c].viewMode)
         IN  ExtentX(q) > 0 /\ ExtentY(q) > 0

\* C17: no two slices of a result share an id
C17_UniqueSliceIds ==
  \A c \in FullCalls :
    \A j, k \in 1..Len(Emitted(c)) :
      j # k => Emitted(c)[j].id # Emitted(c)[k].id

\* the number a coordinate attribute stands for, 0 when it is missing or
\* is not a number
Coordinate(a) == IF a.kind = "number" THEN a.num ELSE 0

PointOf(vtx) == [x |-> Coordinate(vtx.x), y |-> Coordinate(vtx.y)]

\* quad holds the vertices of the rect element raw, one point per vertex and
\* in the order of the element
RectNormalised(raw, quad) ==
  IF ~ raw.present THEN quad = << >>
  ELSE IF ~ raw.isArray THEN quad = << PointOf(raw.v[1]) >>
  ELSE /\ Len(quad) = Len(raw.v)
       /\ \A i \in 1..Len(raw.v) : quad[i] = PointOf(raw.v[i])

\* C18: the inputRect and outputRect of a returned slice hold no point for
\* an absent rect, one point for a rect with a single vertex object, and
\* the n points of a rect with a list of n vertices, in the same order
C18_RectNormalised ==
  \A c \in FullCalls :
    \A j \in 1..Len(Emitted(c)) :
      /\ RectNormalised(Source(c, j).OutputRect, Emitted(c)[j].outputRect)
      /\ RectNormalised(Source(c, j).InputRect, Emitted(c)[j].inputRect)

\* a returned slice whose OutputRect holds a single vertex object
C18_Witness ==
  \E c \in FullCalls :
    \E j \in 1..Len(Emitted(c)) :
      /\ Source(c, j).OutputRect.present
      /\ ~ Source(c, j).OutputRect.isArray
      /\ Len(Emitted(c)[j].outputRect) = 1

\* the vertices of a rect element as written in the document
RawVertices(raw) == IF raw.present THEN raw.v ELSE << >>

\* the rect element of a source slice that a view resolves
ActiveRaw(slice, viewMode) ==
  IF viewMode = "input" THEN slice.InputRect ELSE slice.OutputRect

HasUnparsable(raw) ==
  \E i \in 1..Len(RawVertices(raw)) :
    raw.v[i].x.kind # "number" \/ raw.v[i].y.kind # "number"

\* the coordinates of the output vertices of all source slices, a missing
\* or non-numeric one counted as 0
RawOutputXs ==
  UNION { { Coordinate(RawVertices(xml.Slice[i].OutputRect)[k].x) :
              k \in 1..Len(RawVertices(xml.Slice[i].OutputRect)) } :
          i \in 1..Len(xml.Slice) }

RawOutputYs ==
  UNION { { Coordinate(RawVertices(xml.Slice[i].OutputRect)[k].y) :
              k \in 1..Len(RawVertices(xml.Slice[i].OutputRect)) } :
          i \in 1..Len(xml.Slice) }

\* C19: a coordinate that is missing or is not a number never makes parse
\* fail; the pre-pass counts it as 0, and a slice whose quad has such a
\* coordinate is resolved with all its vertices, that coordinate being 0
C19_UnparsableCoordinateIsZero ==
  xml.root = "ok" =>
    \A c \in Calls :
      /\ calls[c].result.ok
      /\ calls[c].stage = "full" =>
           /\ calls[c].internal.width = Greatest({0} \cup RawOutputXs)
           /\ calls[c].internal.height = Greatest({0} \cup RawOutputYs)
           /\ \A i \in 1..Len(xml.Slice) :
                LET raw == ActiveRaw(xml.Slice[i], calls[c].viewMode)
                    xs == { Coordinate(raw.v[k].x) : k \in 1..Len(RawVertices(raw)) }
                    ys == { Coordinate(raw.v[k].y) : k \in 1..Len(RawVertices(raw)) }
                IN  ( /\ HasUnparsable(raw)
                      /\ Len(raw.v) >= MinVertices
                      /\ Greatest(xs) > Least(xs) /\ Greatest(ys) > Least(ys)
                      /\ calls[c].internal.width > 0
                      /\ calls[c].internal.height > 0 ) =>
                      \E j \in 1..Len(Emitted(c)) :
                        LET quad == IF calls[c].viewMode = "input"
                                      THEN Emitted(c)[j].inputRect
                                      ELSE Emitted(c)[j].outputRect
                        IN  /\ calls[c].origin[j] = i
                            /\ Len(quad) = Len(raw.v)
                            /\ \A k \in 1..Len(raw.v) :
                                 /\ raw.v[k].x.kind # "number" => quad[k].x = 0
                                 /\ raw.v[k].y.kind # "number" => quad[k].y = 0

\* a returned slice whose resolved quad has a coordinate that is missing or
\* is not a number
C19_Witness ==
  \E c \in FullCalls :
    \E j \in 1..Len(Emitted(c)) :
      HasUnparsable(ActiveRaw(Source(c, j), calls[c].viewMode))

\* C20, as stated: the returned composition size and the scale target are
\* the virtual output size if there is one, else the texture size, else
\* 1920x1080, and never the inferred bounding box
C20_DeclaredSizeIsTarget ==
  \A c \in FullCalls :
    LET declared == IF DeclaredElement.present
                      THEN [width |-> DeclaredElement.width,
                            height |-> DeclaredElement.height]
                      ELSE [width |-> 1920, height |-> 1080]
    IN  /\ calls[c].result.compositionSize = declared
        /\ IsQuotient(calls[c].scaleX, declared.width, calls[c].internal.width)
        /\ IsQuotient(calls[c].scaleY, declared.height, calls[c].internal.height)

\* C20, amended: the returned composition size and the scale target take
\* each dimension from the virtual output if there is one, else from the
\* texture size: the declared width, or 1920 when no width is declared or
\* it is 0, and the declared height, or 1080 when no height is declared or
\* it is 0; the inferred bounding box is only the divisor of the scale
C20_DeclaredSizePerAttribute ==
  \A c \in FullCalls :
    LET declared ==
          [width |-> IF DeclaredElement.width = 0 THEN 1920
                     ELSE DeclaredElement.width,
           height |-> IF DeclaredElement.height = 0 THEN 1080
                      ELSE DeclaredElement.height]
    IN  /\ calls[c].result.compositionSize = declared
        /\ IsQuotient(calls[c].scaleX, declared.width, calls[c].internal.width)
        /\ IsQuotient(calls[c].scaleY, declared.height, calls[c].internal.height)

\* a call on a document that declares both sizes, the two being different
\* from each other and from the inferred bounding box, and that returns a
\* slice
C20_Witness ==
  \E c \in FullCalls :
    /\ xml.virtual.present /\ xml.texture.present
    /\ xml.virtual.width # xml.texture.width
    /\ calls[c].internal # calls[c].result.compositionSize
    /\ calls[c].internal.width # xml.texture.width
    /\ Len(Emitted(c)) > 0

\* both sequences hold the same points the same number of times
SamePoints(q1, q2) ==
  /\ Len(q1) = Len(q2)
  /\ \A i \in 1..Len(q1) :
       Cardinality({ k \in 1..Len(q1) : q1[k] = q1[i] })
         = Cardinality({ k \in 1..Len(q2) : q2[k] = q1[i] })

\* the box a call returned for the source slice i
BoxOf(c, i) ==
  LET j == CHOOSE j \in 1..Len(Emitted(c)) : calls[c].origin[j] = i
  IN  [x |-> Emitted(c)[j].x, y |-> Emitted(c)[j].y,
       width |-> Emitted(c)[j].width, height |-> Emitted(c)[j].height]

\* C21: two slices whose active quads hold the same vertices in different
\* orders are resolved alike: both are dropped, or both are returned with
\* the same x, y, width and height
C21_VertexOrderIrrelevant ==
  \A c \in FullCalls :
    \A i, k \in 1..Len(xml.Slice) :
      SamePoints(QuadOf(xml.Slice[i], calls[c].viewMode),
                 QuadOf(xml.Slice[k], calls[c].viewMode)) =>
        /\ i \in Dropped(c) <=> k \in Dropped(c)
        /\ i \notin Dropped(c) => BoxOf(c, i) = BoxOf(c, k)

\* a call that returns two slices whose active quads hold the same
\* vertices in different orders
C21_Witness ==
  \E c \in FullCalls :
    \E i, k \in 1..Len(xml.Slice) :
      /\ QuadOf(xml.Slice[i], calls[c].viewMode) # QuadOf(xml.Slice[k], calls[c].viewMode)
      /\ SamePoints(QuadOf(xml.Slice[i], calls[c].viewMode),
                    QuadOf(xml.Slice[k], calls[c].viewMode))
      /\ i \notin Dropped(c) /\ k \notin Dropped(c)

\* the view that a call does not resolve
OtherView(viewMode) == IF viewMode = "input" THEN "output" ELSE "input"

\* C22: a slice whose quad in the view of the call is valid is returned
\* whatever its quad in the other view is; its box is the rounded scaled
\* bounding box of the quad of the view of the call, and its inputRect and
\* outputRect are the vertices of the document, not scaled
C22_ViewModeSelectsQuad ==
  \A c \in FullCalls :
    \A i \in 1..Len(xml.Slice) :
      LET q == QuadOf(xml.Slice[i], calls[c].viewMode)
          target == calls[c].result.compositionSize
          internal == calls[c].internal
      IN  ValidQuad(q) =>
            /\ i \notin Dropped(c)
            /\ \E j \in 1..Len(Emitted(c)) :
                 /\ calls[c].origin[j] = i
                 /\ IsRounded(Emitted(c)[j].x, Least(Xs(q)), target.width, internal.width)
                 /\ IsRounded(Emitted(c)[j].y, Least(Ys(q)), target.height, internal.height)
                 /\ IsRounded(Emitted(c)[j].width, ExtentX(q), target.width, internal.width)
                 /\ IsRounded(Emitted(c)[j].height, ExtentY(q), target.height, internal.height)
                 /\ RectNormalised(xml.Slice[i].InputRect, Emitted(c)[j].inputRect)
                 /\ RectNormalised(xml.Slice[i].OutputRect, Emitted(c)[j].outputRect)

\* a returned slice whose quad in the other view is invalid, and whose two
\* quads have different bounding boxes
C22_Witness ==
  \E c \in FullCalls :
    \E i \in 1..Len(xml.Slice) :
      /\ i \notin Dropped(c)
      /\ ValidQuad(QuadOf(xml.Slice[i], calls[c].viewMode))
      /\ ~ ValidQuad(QuadOf(xml.Slice[i], OtherView(calls[c].viewMode)))
      /\ calls[c].internal.width > 0 /\ calls[c].internal.height > 0

\* the ids of the slices of the Screen elements after the first
LaterIds ==
  UNION { { sliceId(xml.later[n].Slice[i], << 1, i >>) :
              i \in 1..Len(xml.later[n].Slice) } : n \in 1..Len(xml.later) }

\* C24: a document with several Screen elements is resolved without
\* failing, from its first screen only: the composition size is the one
\* the first screen declares, the internal resolution is the bounding box
\* of the output vertices of the first screen, every returned slice is a
\* slice of the first screen and no slice of a later screen is returned
C24_FirstScreenOnly ==
  Len(xml.later) > 0 =>
    \A c \in Calls :
      /\ calls[c].result.ok
      /\ calls[c].result.compositionSize.width =
           (IF DeclaredElement.width = 0 THEN 1920 ELSE DeclaredElement.width)
      /\ calls[c].result.compositionSize.height =
           (IF DeclaredElement.height = 0 THEN 1080 ELSE DeclaredElement.height)
      /\ Len(calls[c].result.slices) <= Len(xml.Slice)
      /\ \A j \in 1..Len(calls[c].result.slices) :
           /\ calls[c].result.slices[j].id \notin LaterIds
           /\ calls[c].result.slices[j].id = sliceId(Source(c, j), << 1, j >>)
      /\ calls[c].stage = "full" =>
           /\ calls[c].internal.width = Greatest({0} \cup RawOutputXs)
           /\ calls[c].internal.height = Greatest({0} \cup RawOutputYs)

\* a call that returns a slice of the first of two screens
C24_Witness ==
  /\ Len(xml.later) > 0
  /\ \E c \in FullCalls : Len(Emitted(c)) > 0

\* every output vertex of the first screen has coordinates that are not
\* negative
NonNegativeOutput ==
  \A x \in RawOutputXs \cup RawOutputYs : x >= 0

\* C28: in output view, when no output coordinate is negative, every
\* returned box lies inside the returned composition size: x >= 0, y >= 0,
\* x + width <= compositionSize.width, y + height <= compositionSize.height
C28_BoxInsideCanvas ==
  \A c \in FullCalls :
    (calls[c].viewMode = "output" /\ NonNegativeOutput) =>
      \A j \in 1..Len(Emitted(c)) :
        LET b == Emitted(c)[j]
            size == calls[c].result.compositionSize
        IN  /\ IsFinite(b.x) /\ IsFinite(b.y)
            /\ IsFinite(b.width) /\ IsFinite(b.height)
            /\ b.x.n >= 0 /\ b.y.n >= 0
            /\ b.x.n + b.width.n <= size.width
            /\ b.y.n + b.height.n <= size.height

\* C29: when the active quad of a returned slice ends on the x axis where
\* the active quad of another returned slice begins, the box of the first
\* ends where the box of the second begins: x + width of the first is x of
\* the second; likewise on the y axis
C29_AdjacencyPreserved ==
  \A c \in FullCalls :
    \A j, k \in 1..Len(Emitted(c)) :
      LET qa == QuadOf(Source(c, j), calls[c].viewMode)
          qb == QuadOf(Source(c, k), calls[c].viewMode)
          a == Emitted(c)[j]
          b == Emitted(c)[k]
      IN  /\ Greatest(Xs(qa)) = Least(Xs(qb)) =>
               /\ IsFinite(a.x) /\ IsFinite(a.width) /\ IsFinite(b.x)
               /\ a.x.n + a.width.n = b.x.n
          /\ Greatest(Ys(qa)) = Least(Ys(qb)) =>
               /\ IsFinite(a.y) /\ IsFinite(a.height) /\ IsFinite(b.y)
               /\ a.y.n + a.height.n = b.y.n

(***************************************************************************)
(* The application (App.tsx).  Its state is the React state of App, the    *)
(* canvas shared by every call of generateComposition, the image shown by  *)
(* the preview, and the file reads that have not completed.  One step is   *)
(* one event: its handler, then the renders and effects that follow until  *)
(* no state update is left.                                                *)
(***************************************************************************)
MaxPending == 1     \* file reads in flight

PaletteLength == 8

Palettes == {"vibrant", "retro"}
PatternTypes == {"resolume", "pixel-grid"}

\* the colour at a position of a palette (palette[index % palette.length],
\* index counted from 0)
paletteColor(paletteName, index) ==
  [palette |-> paletteName, at |-> index % PaletteLength]

\* the colour chosen in the colour input of a slice
PickedColor == [palette |-> "picked", at |-> 0]

\* config.backgroundColor, drawn for a slice that has no colour
BackgroundColor == [palette |-> "background", at |-> 0]

\* The files the user can choose
FileA ==
  [root |-> "ok", later |-> << >>,
   virtual |-> NoSizeElement, texture |-> NoSizeElement,
   Slice |-> << SliceAt([OutputRect |-> RectOf(Quad4(0, 0, 1, 1)),
                         InputRect |-> RectOf(Quad4(0, 0, 2, 1)),
                         hasUniqueId |-> TRUE], 1),
                SliceAt([OutputRect |-> RectOf(SubSeq(Quad4(0, 0, 4, 3), 1, 3)),
                         InputRect |-> RectOf(Quad4(0, 0, 2, 1)),
                         hasUniqueId |-> TRUE], 2) >>]

FileB ==
  [root |-> "ok", later |-> << >>,
   virtual |-> SizeElement(2, 1), texture |-> NoSizeElement,
   Slice |-> << SliceAt([OutputRect |-> RectOf(Quad4(1, 0, 3, 2)),
                         InputRect |-> RectOf(Quad4(0, 0, 2, 1)),
                         hasUniqueId |-> FALSE], 1) >>]

FileBad ==
  [root |-> "noXmlState", later |-> << >>,
   virtual |-> NoSizeElement, texture |-> NoSizeElement, Slice |-> << >>]

AppFiles == {FileA, FileB, FileBad}

\* useState<string | null>(null)
NoRawXML == [loaded |-> FALSE]
RawXML(file) == [loaded |-> TRUE, xml |-> file]

\* A Map<string, string> as the sequence of its entries in insertion order
MapHas(map, id) == \E n \in 1..Len(map) : map[n].id = id
MapGet(map, id) == map[CHOOSE n \in 1..Len(map) : map[n].id = id].color
MapSet(map, id, color) ==
  IF MapHas(map, id)
    THEN [n \in 1..Len(map) |->
            IF map[n].id = id THEN [id |-> id, color |-> color] ELSE map[n]]
    ELSE Append(map, [id |-> id, color |-> color])

\* lines 123-129 and 137-142: one entry per slice, set in slice order
RECURSIVE colorsFrom(_, _, _, _)
colorsFrom(slices, paletteName, index, map) ==
  IF index >= Len(slices) THEN map
  ELSE colorsFrom(slices, paletteName, index + 1,
                  MapSet(map, slices[index + 1].id, paletteColor(paletteName, index)))

generateSliceColors(slices) == colorsFrom(slices, "vibrant", 0, << >>)

\* generateComposition: what is drawn on the canvas
generateComposition(setup, patternType, colors) ==
  [width |-> setup.compositionSize.width,
   height |-> setup.compositionSize.height,
   type |-> patternType,
   slices |-> [j \in 1..Len(setup.slices) |->
                 [x |-> setup.slices[j].x, y |-> setup.slices[j].y,
                  width |-> setup.slices[j].width,
                  height |-> setup.slices[j].height,
                  color |-> IF MapHas(colors, setup.slices[j].id)
                              THEN MapGet(colors, setup.slices[j].id)
                              ELSE BackgroundColor]]]

\* a canvas nothing was drawn on, and a preview without image
Blank == [width |-> 0, height |-> 0, type |-> "none", slices |-> << >>]

VARIABLES rawXML, viewMode, resolumeSetup, resolvedView, sliceColors,
          selectedPattern, compositionCanvas, canvasContent, previewSrc,
          pending

\* resolvedView is a history value: the view mode of the call of parse that
\* returned resolumeSetup.  compositionCanvas is TRUE when the state holds
\* the canvas and FALSE when it holds null.
appVars == << rawXML, viewMode, resolumeSetup, resolvedView, sliceColors,
              selectedPattern, compositionCanvas, canvasContent, previewSrc,
              pending >>

\* lines 19-42: the initial React state
AppIdle ==
  /\ rawXML = NoRawXML
  /\ viewMode = "output"
  /\ resolumeSetup = Null
  /\ resolvedView = "none"
  /\ sliceColors = << >>
  /\ selectedPattern = "resolume"
  /\ compositionCanvas = FALSE
  /\ canvasContent = Blank
  /\ previewSrc = Blank
  /\ pending = {}

\* the React state as one value
AppState ==
  [rawXML |-> rawXML, viewMode |-> viewMode, resolumeSetup |-> resolumeSetup,
   resolvedView |-> resolvedView, sliceColors |-> sliceColors,
   selectedPattern |-> selectedPattern, compositionCanvas |-> compositionCanvas]

\* A render computes the src of the preview image from what the shared
\* canvas shows at that time (line 507); there is no image while the state
\* holds no canvas (line 504).
previewOf(s, canvas) == IF s.compositionCanvas THEN canvas ELSE Blank

\* lines 162-178, run with the values of the render s when one of its
\* dependencies changed: the canvas is redrawn;  setCompositionCanvas is a
\* state update only when the state holds no canvas yet, because
\* generateComposition always returns the same canvas object
composeEffect(s, canvas, compose) ==
  LET draws == compose /\ s.resolumeSetup.ok
  IN  [canvas |-> IF draws
                    THEN generateComposition(s.resolumeSetup, s.selectedPattern,
                                             s.sliceColors)
                    ELSE canvas,
       setsCanvas |-> draws /\ ~ s.compositionCanvas]

\* the render caused by setCompositionCanvas alone: no dependency of an
\* effect changed
renderOnly(s, canvas) ==
  [state |-> s, canvas |-> canvas, preview |-> previewOf(s, canvas)]

\* a render after which only the effect of lines 162-178 can run, viewMode
\* and rawXML being unchanged: the render caused by the state updates of
\* the effects of a first render, or by a handler that sets neither
rerender(s, canvas, compose) ==
  LET composed == composeEffect(s, canvas, compose)
  IN  IF composed.setsCanvas
        THEN renderOnly([s EXCEPT !.compositionCanvas = TRUE], composed.canvas)
        ELSE [state |-> s, canvas |-> composed.canvas,
              preview |-> previewOf(s, canvas)]

\* lines 90-103, run with the values of the render s when viewMode or
\* rawXML changed; call is resolumeParser.parse(rawXML, viewMode)
reparseEffect(s, reparse, call) ==
  IF reparse /\ s.rawXML.loaded /\ call.result.ok
    THEN [setsSetup |-> TRUE,
          state |-> [s EXCEPT
                       !.resolumeSetup = call.result,
                       !.resolvedView = s.viewMode,
                       !.sliceColors = IF Len(s.sliceColors) = 0
                                         THEN generateSliceColors(call.result.slices)
                                         ELSE @]]
    ELSE [setsSetup |-> FALSE, state |-> s]

\* the renders that follow the effects of a first render, if they updated
\* the state
afterEffects(s, canvas, reparsed, composed) ==
  IF reparsed.setsSetup \/ composed.setsCanvas
    THEN rerender([reparsed.state EXCEPT
                     !.compositionCanvas = IF composed.setsCanvas THEN TRUE ELSE @],
                  composed.canvas, reparsed.setsSetup)
    ELSE [state |-> s, canvas |-> composed.canvas,
          preview |-> previewOf(s, canvas)]

\* One render of App with the state s, then the effects of that render,
\* then the renders that their state updates cause.  canvas is what the
\* shared canvas shows when the render begins; reparse and compose tell
\* whether the dependencies of the effect of lines 90-103 and of the effect
\* of lines 162-178 changed.  The effects run after the render with the
\* values of the render, and their state updates are applied together.
renderAndEffects(s, canvas, reparse, compose, entropy) ==
  afterEffects(s, canvas,
               reparseEffect(s, reparse, parse(s.rawXML.xml, s.viewMode, entropy)),
               composeEffect(s, canvas, compose))

\* the state, the canvas and the preview after an event
Settled(r) ==
  /\ rawXML' = r.state.rawXML
  /\ viewMode' = r.state.viewMode
  /\ resolumeSetup' = r.state.resolumeSetup
  /\ resolvedView' = r.state.resolvedView
  /\ sliceColors' = r.state.sliceColors
  /\ selectedPattern' = r.state.selectedPattern
  /\ compositionCanvas' = r.state.compositionCanvas
  /\ canvasContent' = r.canvas
  /\ previewSrc' = r.preview

\* lines 68-73 and 87: a file is chosen and its read begins; the onload
\* callback created here holds the viewMode of the current render
HandleFileUpload(file) ==
  /\ Cardinality(pending) < MaxPending
  /\ pending' = pending \cup {[file |-> file, viewMode |-> viewMode]}
  /\ UNCHANGED << rawXML, viewMode, resolumeSetup, resolvedView, sliceColors,
                  selectedPattern, compositionCanvas, canvasContent, previewSrc,
                  vars >>

\* lines 74-86, the state updates of reader.onload; call is
\* resolumeParser.parse(xmlContent, viewMode) with the viewMode the
\* callback holds
onloadUpdates(s, read, call) ==
  [rendered |-> call.result.ok \/ s.rawXML # RawXML(read.file),
   reparse |-> s.rawXML # RawXML(read.file),
   compose |-> call.result.ok,
   state |-> [s EXCEPT
                !.rawXML = RawXML(read.file),
                !.resolumeSetup = IF call.result.ok THEN call.result ELSE @,
                !.resolvedView = IF call.result.ok THEN read.viewMode ELSE @,
                !.sliceColors = IF call.result.ok
                                  THEN generateSliceColors(call.result.slices)
                                  ELSE @]]

\* the renders and effects after the handler, if it updated the state
afterHandler(updates, entropy) ==
  IF updates.rendered
    THEN Settled(renderAndEffects(updates.state, canvasContent,
                                  updates.reparse, updates.compose, entropy))
    ELSE UNCHANGED << rawXML, viewMode, resolumeSetup, resolvedView,
                      sliceColors, selectedPattern, compositionCanvas,
                      canvasContent, previewSrc >>

\* lines 74-86: reader.onload
ReaderOnLoad(read, entropy, later) ==
  /\ read \in pending
  /\ pending' = pending \ {read}
  /\ afterHandler(onloadUpdates(AppState, read,
                                parse(read.file, read.viewMode, entropy)),
                  later)
  /\ UNCHANGED vars

\* lines 250 and 260: onClick={() => setViewMode(mode)}
SetViewMode(mode, entropy) ==
  /\ mode # viewMode
  /\ Settled(renderAndEffects([AppState EXCEPT !.viewMode = mode],
                              canvasContent, TRUE, FALSE, entropy))
  /\ UNCHANGED << pending, vars >>

\* lines 133-145
ApplyColorPalette(paletteName) ==
  /\ resolumeSetup.ok
  /\ Settled(rerender(
       [AppState EXCEPT
          !.sliceColors = colorsFrom(resolumeSetup.slices, paletteName, 0, << >>)],
       canvasContent, TRUE))
  /\ UNCHANGED << pending, vars >>

\* lines 198-202, called from the colour input of a slice of the list
ChangeSliceColor(index) ==
  /\ resolumeSetup.ok
  /\ index \in 1..Len(resolumeSetup.slices)
  /\ Settled(rerender(
       [AppState EXCEPT
          !.sliceColors = MapSet(sliceColors, resolumeSetup.slices[index].id,
                                 PickedColor)],
       canvasContent, TRUE))
  /\ UNCHANGED << pending, vars >>

\* setSelectedPattern(pattern.id) of the pattern buttons
SetSelectedPattern(patternType) ==
  /\ patternType # selectedPattern
  /\ Settled(rerender([AppState EXCEPT !.selectedPattern = patternType],
                      canvasContent, TRUE))
  /\ UNCHANGED << pending, vars >>

AppNext ==
  \/ \E file \in AppFiles : HandleFileUpload(file)
  \/ \E read \in [file : AppFiles, viewMode : ViewModes],
          entropy, later \in 1..NumEntropy :
       ReaderOnLoad(read, entropy, later)
  \/ \E mode \in ViewModes, entropy \in 1..NumEntropy : SetViewMode(mode, entropy)
  \/ \E paletteName \in Palettes : ApplyColorPalette(paletteName)
  \/ \E index \in 1..MaxSlices : ChangeSliceColor(index)
  \/ \E patternType \in PatternTypes : SetSelectedPattern(patternType)

allVars == << vars, appVars >>

\* calls of parse on one descriptor, the application being idle
ParserInit ==
  /\ Init
  /\ AppIdle

ParseOnly(mode, entropy) ==
  /\ Parse(mode, entropy)
  /\ UNCHANGED appVars

ParserNext == \E mode \in ViewModes, entropy \in 1..NumEntropy : ParseOnly(mode, entropy)

Spec == ParserInit /\ [][ParserNext]_allVars

\* the application, no descriptor being parsed outside of it
AppInit ==
  /\ AppIdle
  /\ xml = FileBad
  /\ calls = << >>

AppSpec == AppInit /\ [][AppNext]_allVars

\* C23: when the view mode changes while rawXML holds a descriptor, the
\* next resolumeSetup is the result of parse on rawXML under the new view
\* mode
C23_ToggleReparses ==
  [][(viewMode' # viewMode /\ rawXML.loaded) =>
       \E entropy \in 1..NumEntropy :
         resolumeSetup' = parse(rawXML.xml, viewMode', entropy).result]_allVars

\* C25: whenever no file read is pending, the setup shown was resolved
\* with the current view mode
C25_SetupInCurrentView ==
  (pending = {} /\ resolumeSetup.ok) => resolvedView = viewMode

\* a file read completes in this step and parse returns null for the file
FailedImport ==
  \E read \in pending :
    /\ read \notin pending'
    /\ ~ parse(read.file, read.viewMode, 1).result.ok

\* C26: a file for which parse returns null changes neither rawXML nor
\* resolumeSetup nor sliceColors
C26_FailedImportChangesNothing ==
  [][FailedImport =>
       /\ rawXML' = rawXML
       /\ resolumeSetup' = resolumeSetup
       /\ sliceColors' = sliceColors]_allVars

\* C27: every slice of the current setup has an entry in sliceColors
C27_EverySliceHasColor ==
  resolumeSetup.ok =>
    \A j \in 1..Len(resolumeSetup.slices) :
      MapHas(sliceColors, resolumeSetup.slices[j].id)

\* C30: once an event is handled, the preview shows the composition of
\* the current setup, pattern and colours, which is also what the shared
\* canvas holds for the export
C30_PreviewIsCurrent ==
  resolumeSetup.ok =>
    /\ canvasContent = generateComposition(resolumeSetup, selectedPattern, sliceColors)
    /\ previewSrc = canvasContent

====
